---------------------------- MODULE Spec2Model ----------------------------
(***************************************************************************)
(* Model of the streaming tool-call orchestrator (backend/server.py,       *)
(* smart_stream_generator) and of the remote agent's reverse RPC transport *)
(* (client_agent.py: heartbeat, agent_loop, handle_message).               *)
(*                                                                         *)
(* Several specifications share the module: OrchSpec drives one chat       *)
(* request through smart_stream_generator; AgentSpec drives agent_loop     *)
(* with its heartbeat task against a server that sends commands and drops  *)
(* connections (ReconnectSpec: the connection loop alone, with fairness);  *)
(* ServerSpec drives the /ws/mcp endpoint with agents that connect and     *)
(* disconnect; LoopSpec runs chat requests and a connection handler on the *)
(* server's event loop.                                                    *)
(***************************************************************************)
EXTENDS Integers, Sequences, FiniteSets, TLC

VARIABLES
    \* ---- smart_stream_generator (one chat request) ----
    pc,              \* position of the generator
    messages,        \* conversation history (list of dicts)
    tools,           \* result of mcp_manager.get_all_tools_definitions()
    tool_calls,      \* index-addressed array of reconstructed tool calls
    text_buffer,     \* round-1 text held back
    is_tool_mode,    \* a tool-call delta has been seen
    tc_pos,          \* position of the `for tc in tool_calls` loop (1-based)
    frames,          \* frames yielded to the caller, in order
    requests,        \* model requests issued (client.chat.completions.create)
    executed,        \* calls made to mcp_manager.execute_tool
    consumed,        \* round-1 deltas received so far, in arrival order
    chunks2,         \* number of round-2 chunks relayed
    \* ---- agent_loop / heartbeat / handle_message (remote agent) ----
    agent_pc,        \* position of agent_loop
    conn_id,         \* number of the current connection attempt
    sock_open,       \* the peer still holds the current connection open
    inbox,           \* messages received on the connection, not yet iterated
    sent,            \* everything the agent sent (ws.send), in order
    hb_alive,        \* the heartbeat task exists and is not cancelled/ended
    hb_remaining,    \* seconds left of the heartbeat's asyncio.sleep(30)
    hb_overdue,      \* seconds the due ping has been kept from being sent
    current,         \* the command handle_message is working on
    run_remaining,   \* seconds the running tool handler still needs
    backoff_remaining, \* seconds left of agent_loop's asyncio.sleep(5)
    attempts,        \* agent_loop's connection attempts and backoff sleeps, in order
    cmd_seq,         \* number of messages the server has sent to the agent
    \* ---- websocket_mcp_endpoint (server side of /ws/mcp) ----
    ws_pc,           \* per socket: position of its websocket_mcp_endpoint call
    ws_host,         \* per socket: websocket.client.host
    remote_connections, \* the Aggregator's routing table: client_id -> socket
    \* ---- the server's event loop (uvicorn, one process) ----
    loop_held_by,    \* the chat requests whose generator occupies the loop thread
    chat_pc,         \* per chat request: position of its smart_stream_generator
    chat_chunks,     \* per chat request: chunks of the model stream received
    ws_arrived,      \* messages from the agent that reached the server's socket
    ws_handled       \* of these, the ones handle_remote_connection has taken

orch_vars == <<pc, messages, tools, tool_calls, text_buffer, is_tool_mode,
               tc_pos, frames, requests, executed, consumed, chunks2>>
agent_vars == <<agent_pc, conn_id, sock_open, inbox, sent, hb_alive,
                hb_remaining, hb_overdue, current, run_remaining,
                backoff_remaining, attempts, cmd_seq>>
loop_vars == <<loop_held_by, chat_pc, chat_chunks, ws_arrived, ws_handled>>
endpoint_vars == <<ws_pc, ws_host, remote_connections>>
server_vars == <<endpoint_vars, loop_vars>>
vars == <<orch_vars, agent_vars, server_vars>>

(***************************************************************************)
(* Bounds of the model.                                                    *)
(***************************************************************************)
MaxDeltas == 3       \* round-1 deltas per stream
MaxChunks == 1       \* round-2 chunks per stream
MaxConns == 2        \* connection attempts of the agent
MaxCmds == 2         \* messages the server sends to the agent
MaxSent == 3         \* messages the agent sends
MaxSockets == 3      \* connections accepted on /ws/mcp
MaxChats == 2        \* concurrent chat requests
MaxAgentMsgs == 2    \* messages an agent sends to the server's socket

\* Python's None, for fields that hold a string otherwise.
None == "<None>"
\* tc.index is None
NoIndex == 0 - 1

(***************************************************************************)
(* Sequence helpers.                                                       *)
(***************************************************************************)
RECURSIVE ConcatAll(_)
ConcatAll(ss) == IF ss = <<>> THEN "" ELSE Head(ss) \o ConcatAll(Tail(ss))

IsPrefix(p, s) == Len(p) <= Len(s) /\ SubSeq(s, 1, Len(p)) = p

(***************************************************************************)
(* Request data: conversations a caller can send (ChatCompletionRequest).  *)
(***************************************************************************)
Message(role, content) == [role |-> role, content |-> content,
                           tool_call_id |-> None, tool_calls |-> <<>>]

Conversations ==
    { <<Message("user", "What is on my calendar today?")>>,
      <<Message("system", "Be brief."), Message("user", "hi")>>,
      <<Message("system", None), Message("user", "hi")>>,
      <<>> }

system_instruction == "You are a helpful Dell Tech assistant. Just call the function."

\* lines 149-153; raises TypeError when the system message's content is None
PrepareRaises(msgs) ==
    msgs # <<>> /\ msgs[1].role = "system" /\ msgs[1].content = None

PrepareMessages(msgs) ==
    IF msgs # <<>> /\ msgs[1].role # "system"
      THEN <<Message("system", system_instruction)>> \o msgs
    ELSE IF msgs # <<>> /\ msgs[1].role = "system"
      THEN [msgs EXCEPT ![1].content = @ \o " " \o system_instruction]
    ELSE msgs

\* Tool descriptor sets the Aggregator can return.
ToolSets ==
    { <<>>,
      <<[type |-> "function",
         function |-> [name |-> "read_calendar", description |-> "Read calendar."]]>> }

DefaultDescription == "Executing enterprise utility function..."

RECURSIVE DescriptionOf(_, _)
\* tool_descriptions_map.get(func_name, default), lines 133-137 and 221
DescriptionOf(ts, func_name) ==
    IF ts = <<>> THEN DefaultDescription
    ELSE IF ts[Len(ts)].function.name = func_name
      THEN ts[Len(ts)].function.description
    ELSE DescriptionOf(SubSeq(ts, 1, Len(ts) - 1), func_name)

\* `tools if tools else None`, line 159: an empty list is passed as None
ToolsArg(ts) == [none |-> ts = <<>>, list |-> ts]

\* round 2 passes no tools argument, lines 246-250
NoToolsArg == [none |-> TRUE, list |-> <<>>]

(***************************************************************************)
(* Round-1 deltas (chunk.choices[0].delta).                                *)
(***************************************************************************)
Fragment(index, id, name, arguments) ==
    [index |-> index, id |-> id,
     function |-> [name |-> name, arguments |-> arguments]]

Filler30 == "Let me check your calendar now"
Filler35 == "One moment while I look into this.."

FragOpen0  == Fragment(0, "call_a", "read_calendar", "{\"r\":")
FragArgsB  == Fragment(0, "", "", "1}")
FragRename == Fragment(0, "call_c", "send_email", "")
FragWhole0 == Fragment(0, "call_d", "read_calendar", "{}")
FragWhole1 == Fragment(1, "call_b", "get_laptop_status", "{}")
FragNoIdx  == Fragment(NoIndex, "call_x", "read_emails", "{}")

Delta(content, tcs) == [content |-> content, tool_calls |-> tcs]

Deltas ==
    { Delta(Filler30, <<>>), Delta(Filler35, <<>>), Delta("", <<>>),
      Delta("", <<FragOpen0>>), Delta("", <<FragArgsB>>), Delta("", <<FragRename>>),
      Delta("", <<FragWhole0>>), Delta("", <<FragWhole1>>), Delta("", <<FragNoIdx>>),
      Delta("", <<FragWhole1, FragOpen0>>), Delta(Filler30, <<FragArgsB>>) }

(***************************************************************************)
(* Round 1, lines 164-201.                                                 *)
(***************************************************************************)
Placeholder == [id |-> "", type |-> "function",
                function |-> [name |-> "", arguments |-> ""]]

\* while len(tool_calls) <= tc.index: tool_calls.append(placeholder)
PadTo(tcs, index) ==
    IF Len(tcs) <= index
      THEN tcs \o [k \in 1..(index + 1 - Len(tcs)) |-> Placeholder]
      ELSE tcs

\* Mutant of MergeFragment: the fragment is merged into the last slot of the
\* array instead of the slot its index names.
MergeFragmentIntoLast(tcs, tc) ==
    IF tc.index = NoIndex THEN tcs
    ELSE
      LET padded == PadTo(tcs, tc.index)
          i  == Len(padded)
          s0 == padded[i]
          s1 == IF tc.id # "" THEN [s0 EXCEPT !.id = tc.id] ELSE s0
          s2 == IF tc.function.name # ""
                  THEN [s1 EXCEPT !.function.name = tc.function.name] ELSE s1
          s3 == IF tc.function.arguments # ""
                  THEN [s2 EXCEPT !.function.arguments = @ \o tc.function.arguments]
                  ELSE s2
      IN [padded EXCEPT ![i] = s3]

\* Mutant of MergeFragment: arguments are assigned (=) instead of appended (+=).
MergeFragmentAssign(tcs, tc) ==
    IF tc.index = NoIndex THEN tcs
    ELSE
      LET padded == PadTo(tcs, tc.index)
          i  == tc.index + 1
          s0 == padded[i]
          s1 == IF tc.id # "" THEN [s0 EXCEPT !.id = tc.id] ELSE s0
          s2 == IF tc.function.name # ""
                  THEN [s1 EXCEPT !.function.name = tc.function.name] ELSE s1
          s3 == IF tc.function.arguments # ""
                  THEN [s2 EXCEPT !.function.arguments = tc.function.arguments]
                  ELSE s2
      IN [padded EXCEPT ![i] = s3]

\* lines 179-189 for one fragment tc of delta.tool_calls
MergeFragment(tcs, tc) ==
    IF tc.index = NoIndex THEN tcs
    ELSE
      LET padded == PadTo(tcs, tc.index)
          i  == tc.index + 1
          s0 == padded[i]
          s1 == IF tc.id # "" THEN [s0 EXCEPT !.id = tc.id] ELSE s0
          s2 == IF tc.function.name # ""
                  THEN [s1 EXCEPT !.function.name = tc.function.name] ELSE s1
          s3 == IF tc.function.arguments # ""
                  THEN [s2 EXCEPT !.function.arguments = @ \o tc.function.arguments]
                  ELSE s2
      IN [padded EXCEPT ![i] = s3]

RECURSIVE MergeFragments(_, _)
\* for tc in delta.tool_calls, line 178
MergeFragments(tcs, frags) ==
    IF frags = <<>> THEN tcs
    ELSE MergeFragments(MergeFragment(tcs, Head(frags)), Tail(frags))

FlushThreshold == 60

\* Mutant of ShouldFlush: the buffer is flushed on reaching the threshold.
ShouldFlushAtThreshold(buf) == Len(buf) >= FlushThreshold

\* len(text_buffer) > 60, line 199
ShouldFlush(buf) == Len(buf) > FlushThreshold

\* Mutant of Scrubbed: the buffer is not cleared when tool mode is entered.
ScrubbedNever(buf, delta, mode) == buf

\* text_buffer after the tool-call part of a delta, lines 172-176
Scrubbed(buf, delta, mode) ==
    IF delta.tool_calls # <<>> /\ ~mode THEN "" ELSE buf

\* Mutant of Buffered: content is appended whether or not tool mode is on.
BufferedAlways(buf, delta, mode) ==
    IF delta.content # "" THEN buf \o delta.content ELSE buf

\* text_buffer += delta.content, lines 192-197
Buffered(buf, delta, mode) ==
    IF delta.content # "" /\ ~mode THEN buf \o delta.content ELSE buf

TextFrame(content) == [type |-> "text", body |-> content]
ToolStartFrame(tool, description) ==
    [type |-> "tool_start", body |-> <<tool, description>>]
ToolEndFrame(result) == [type |-> "tool_end", body |-> result]
ErrorFrame(message) == [type |-> "error", body |-> message]
ChunkFrame(chunk) == [type |-> "chunk", body |-> chunk]
DoneFrame == [type |-> "done", body |-> "[DONE]"]

(***************************************************************************)
(* json.loads(tc["function"]["arguments"]), line 227: a recogniser for the *)
(* JSON texts the fragments can spell (objects with string keys, strings,  *)
(* unsigned integers; no whitespace).  The result is the position after    *)
(* the value, 0 when the text is malformed.                                *)
(***************************************************************************)
Char(s, i) == IF i >= 1 /\ i <= Len(s) THEN SubSeq(s, i, i) ELSE ""

Digits == {"0", "1", "2", "3", "4", "5", "6", "7", "8", "9"}

RECURSIVE ScanString(_, _)
ScanString(s, i) ==
    IF i > Len(s) THEN 0
    ELSE IF Char(s, i) = "\"" THEN i + 1
    ELSE ScanString(s, i + 1)

RECURSIVE ScanDigits(_, _)
ScanDigits(s, i) == IF Char(s, i) \in Digits THEN ScanDigits(s, i + 1) ELSE i

RECURSIVE ParseValue(_, _)
RECURSIVE ParseMembers(_, _)
ParseValue(s, i) ==
    IF Char(s, i) = "{"
      THEN IF Char(s, i + 1) = "}" THEN i + 2 ELSE ParseMembers(s, i + 1)
    ELSE IF Char(s, i) = "\"" THEN ScanString(s, i + 1)
    ELSE IF Char(s, i) \in Digits THEN ScanDigits(s, i)
    ELSE 0

ParseMembers(s, i) ==
    IF Char(s, i) # "\"" THEN 0
    ELSE LET k == ScanString(s, i + 1) IN
      IF k = 0 \/ Char(s, k) # ":" THEN 0
      ELSE LET v == ParseValue(s, k + 1) IN
        IF v = 0 THEN 0
        ELSE IF Char(s, v) = "}" THEN v + 1
        ELSE IF Char(s, v) = "," THEN ParseMembers(s, v + 1)
        ELSE 0

\* Mutant of JsonLoadsOk: an empty arguments string is read as "no arguments".
JsonLoadsOkOrEmpty(s) == s = "" \/ ParseValue(s, 1) = Len(s) + 1

\* json.loads succeeds: one value spanning the whole text
JsonLoadsOk(s) == ParseValue(s, 1) = Len(s) + 1

(***************************************************************************)
(* smart_stream_generator, lines 115-260.                                  *)
(***************************************************************************)
OrchInitFor(req) ==
    /\ pc = "start"
    /\ messages = req
    /\ tools = <<>>
    /\ tool_calls = <<>>
    /\ text_buffer = ""
    /\ is_tool_mode = FALSE
    /\ tc_pos = 0
    /\ frames = <<>>
    /\ requests = <<>>
    /\ executed = <<>>
    /\ consumed = <<>>
    /\ chunks2 = 0

\* except Exception as e: yield the error frame; the generator then returns
\* (lines 257-260)
Raise(message) ==
    /\ frames' = Append(frames, ErrorFrame(message))
    /\ pc' = "closed"

\* lines 126-162 completing without an exception
BuildRequest ==
    /\ pc = "start"
    /\ \E ts \in ToolSets :
         IF PrepareRaises(messages)
           THEN /\ Raise("unsupported operand type(s) for +=: 'NoneType' and 'str'")
                /\ UNCHANGED <<messages, tools, requests>>
           ELSE /\ tools' = ts
                /\ messages' = PrepareMessages(messages)
                /\ requests' = <<[round |-> 1, messages |-> PrepareMessages(messages),
                                  tools |-> ToolsArg(ts)]>>
                /\ frames' = frames
                /\ pc' = "round1"
    /\ UNCHANGED <<tool_calls, text_buffer, is_tool_mode, tc_pos, executed,
                   consumed, chunks2, agent_vars, server_vars>>

\* OpenAI(...), get_all_tools_definitions() or create(...) raising (lines 127-162)
BuildRequestFails ==
    /\ pc = "start"
    /\ Raise("Connection error.")
    /\ UNCHANGED <<messages, tools, tool_calls, text_buffer, is_tool_mode, tc_pos,
                   requests, executed, consumed, chunks2, agent_vars, server_vars>>

\* one iteration of `for chunk in stream`, lines 168-201
Round1Delta(delta) ==
    /\ pc = "round1"
    /\ Len(consumed) < MaxDeltas
    /\ LET mode1 == is_tool_mode \/ delta.tool_calls # <<>>
           buf1  == Scrubbed(text_buffer, delta, is_tool_mode)
           buf2  == Buffered(buf1, delta, mode1)
           flush == delta.content # "" /\ ~mode1 /\ ShouldFlush(buf2)
       IN /\ is_tool_mode' = mode1
          /\ tool_calls' = MergeFragments(tool_calls, delta.tool_calls)
          /\ frames' = IF flush THEN Append(frames, TextFrame(buf2)) ELSE frames
          /\ text_buffer' = IF flush THEN "" ELSE buf2
    /\ consumed' = Append(consumed, delta)
    /\ UNCHANGED <<pc, messages, tools, tc_pos, requests, executed, chunks2,
                   agent_vars, server_vars>>

\* the round-1 stream raising while it is iterated (line 168)
Round1StreamFails ==
    /\ pc = "round1"
    /\ Raise("Connection error.")
    /\ UNCHANGED <<messages, tools, tool_calls, text_buffer, is_tool_mode, tc_pos,
                   requests, executed, consumed, chunks2, agent_vars, server_vars>>

AssistantMessage(tcs) == [role |-> "assistant", content |-> None,
                          tool_call_id |-> None, tool_calls |-> tcs]

ToolMessage(call_id, content) == [role |-> "tool", content |-> content,
                                  tool_call_id |-> call_id, tool_calls |-> <<>>]

\* Mutant of ShouldFlushTail: the condition on tool_calls is inverted.
ShouldFlushTailInverted(buf, tcs) == buf # "" /\ tcs # <<>>

\* the trailing flush condition, line 206
ShouldFlushTail(buf, tcs) == buf # "" /\ tcs = <<>>

\* the round-1 stream ends: lines 206-214, and line 255 when no tool was called
Round1End ==
    /\ pc = "round1"
    /\ LET frames1 == IF ShouldFlushTail(text_buffer, tool_calls)
                        THEN Append(frames, TextFrame(text_buffer)) ELSE frames
       IN IF tool_calls # <<>>
            THEN /\ messages' = Append(messages, AssistantMessage(tool_calls))
                 /\ tc_pos' = 1
                 /\ frames' = frames1
                 /\ pc' = "tool_start"
            ELSE /\ frames' = Append(frames1, DoneFrame)
                 /\ pc' = "closed"
                 /\ UNCHANGED <<messages, tc_pos>>
    /\ UNCHANGED <<tools, tool_calls, text_buffer, is_tool_mode, requests, executed,
                   consumed, chunks2, agent_vars, server_vars>>

CurrentCall == tool_calls[tc_pos]

\* Mutant of ToolStart: the loop goes on without yielding the tool-started frame.
ToolStartSilent ==
    /\ pc = "tool_start"
    /\ pc' = "tool_run"
    /\ UNCHANGED <<messages, tools, tool_calls, text_buffer, is_tool_mode, tc_pos,
                   frames, requests, executed, consumed, chunks2, agent_vars, server_vars>>

\* lines 217-224: the tool-started frame
ToolStart ==
    /\ pc = "tool_start"
    /\ frames' = Append(frames,
          ToolStartFrame(CurrentCall.function.name,
                         DescriptionOf(tools, CurrentCall.function.name)))
    /\ pc' = "tool_run"
    /\ UNCHANGED <<messages, tools, tool_calls, text_buffer, is_tool_mode, tc_pos,
                   requests, executed, consumed, chunks2, agent_vars, server_vars>>

\* the loop moves to the next call, or on to line 246
AfterCall == IF tc_pos < Len(tool_calls) THEN "tool_start" ELSE "round2_request"

\* Mutant of ToolFailed: the error path yields its frame but appends no
\* tool-role message.
ToolFailedUnrecorded(err_msg) ==
    /\ frames' = Append(frames, ErrorFrame(err_msg))
    /\ messages' = messages

\* except Exception as e, lines 238-243
ToolFailed(err_msg) ==
    /\ frames' = Append(frames, ErrorFrame(err_msg))
    /\ messages' = Append(messages, ToolMessage(CurrentCall.id, "Error: " \o err_msg))

\* json.loads raises, lines 227 and 238-243
ToolArgsMalformed ==
    /\ pc = "tool_run"
    /\ ~JsonLoadsOk(CurrentCall.function.arguments)
    /\ ToolFailed("Expecting value: line 1 column 1 (char 0)")
    /\ tc_pos' = tc_pos + 1
    /\ pc' = AfterCall
    /\ UNCHANGED <<tools, tool_calls, text_buffer, is_tool_mode, requests, executed,
                   consumed, chunks2, agent_vars, server_vars>>

ToolCall(tc) == [name |-> tc.function.name, arguments |-> tc.function.arguments]

\* what mcp_manager.execute_tool can return
ToolResults == {"[{\"subject\":\"Standup\"}]"}

\* lines 227-236: execute_tool returns
ToolSucceeds ==
    /\ pc = "tool_run"
    /\ JsonLoadsOk(CurrentCall.function.arguments)
    /\ executed' = Append(executed, ToolCall(CurrentCall))
    /\ \E result_str \in ToolResults :
         /\ frames' = Append(frames, ToolEndFrame(result_str))
         /\ messages' = Append(messages, ToolMessage(CurrentCall.id, result_str))
    /\ tc_pos' = tc_pos + 1
    /\ pc' = AfterCall
    /\ UNCHANGED <<tools, tool_calls, text_buffer, is_tool_mode, requests,
                   consumed, chunks2, agent_vars, server_vars>>

\* Mutant of ToolRaises: no try/except around execute_tool; the exception
\* reaches the generator's outer handler.
ToolRaisesUncaught ==
    /\ pc = "tool_run"
    /\ JsonLoadsOk(CurrentCall.function.arguments)
    /\ executed' = Append(executed, ToolCall(CurrentCall))
    /\ Raise("Tool not found")
    /\ UNCHANGED <<messages, tools, tool_calls, text_buffer, is_tool_mode, tc_pos,
                   requests, consumed, chunks2, agent_vars, server_vars>>

\* lines 227-231 and 238-243: execute_tool raises
ToolRaises ==
    /\ pc = "tool_run"
    /\ JsonLoadsOk(CurrentCall.function.arguments)
    /\ executed' = Append(executed, ToolCall(CurrentCall))
    /\ ToolFailed("Tool not found")
    /\ tc_pos' = tc_pos + 1
    /\ pc' = AfterCall
    /\ UNCHANGED <<tools, tool_calls, text_buffer, is_tool_mode, requests,
                   consumed, chunks2, agent_vars, server_vars>>

\* Mutant of Round2Request: round 2 is requested like round 1, with the tools.
Round2RequestWithTools ==
    /\ pc = "round2_request"
    /\ requests' = Append(requests, [round |-> 2, messages |-> messages,
                                     tools |-> ToolsArg(tools)])
    /\ pc' = "round2"
    /\ UNCHANGED <<messages, tools, tool_calls, text_buffer, is_tool_mode, tc_pos,
                   frames, executed, consumed, chunks2, agent_vars, server_vars>>

\* lines 246-250
Round2Request ==
    /\ pc = "round2_request"
    /\ requests' = Append(requests, [round |-> 2, messages |-> messages,
                                     tools |-> NoToolsArg])
    /\ pc' = "round2"
    /\ UNCHANGED <<messages, tools, tool_calls, text_buffer, is_tool_mode, tc_pos,
                   frames, executed, consumed, chunks2, agent_vars, server_vars>>

\* create(...) for round 2 raising
Round2RequestFails ==
    /\ pc = "round2_request"
    /\ Raise("Connection error.")
    /\ UNCHANGED <<messages, tools, tool_calls, text_buffer, is_tool_mode, tc_pos,
                   requests, executed, consumed, chunks2, agent_vars, server_vars>>

Chunks2 == {"The standup is at 09:00."}

\* one iteration of `for chunk in stream2`, lines 252-253
Round2Chunk(chunk) ==
    /\ pc = "round2"
    /\ chunks2 < MaxChunks
    /\ frames' = Append(frames, ChunkFrame(chunk))
    /\ chunks2' = chunks2 + 1
    /\ UNCHANGED <<pc, messages, tools, tool_calls, text_buffer, is_tool_mode,
                   tc_pos, requests, executed, consumed, agent_vars, server_vars>>

\* the round-2 stream raising while it is iterated
Round2StreamFails ==
    /\ pc = "round2"
    /\ Raise("Connection error.")
    /\ UNCHANGED <<messages, tools, tool_calls, text_buffer, is_tool_mode, tc_pos,
                   requests, executed, consumed, chunks2, agent_vars, server_vars>>

\* the round-2 stream ends; line 255
Round2End ==
    /\ pc = "round2"
    /\ frames' = Append(frames, DoneFrame)
    /\ pc' = "closed"
    /\ UNCHANGED <<messages, tools, tool_calls, text_buffer, is_tool_mode, tc_pos,
                   requests, executed, consumed, chunks2, agent_vars, server_vars>>

OrchNext ==
    \/ BuildRequest
    \/ BuildRequestFails
    \/ \E delta \in Deltas : Round1Delta(delta)
    \/ Round1StreamFails
    \/ Round1End
    \/ ToolStart
    \/ ToolArgsMalformed
    \/ ToolSucceeds
    \/ ToolRaises
    \/ Round2Request
    \/ Round2RequestFails
    \/ \E chunk \in Chunks2 : Round2Chunk(chunk)
    \/ Round2StreamFails
    \/ Round2End

(***************************************************************************)
(* Properties of the orchestrator.                                         *)
(***************************************************************************)
TextFrames == SelectSeq(frames, LAMBDA f : f.type = "text")
EmittedText == ConcatAll([k \in 1..Len(TextFrames) |-> TextFrames[k].body])
Count(type) == Len(SelectSeq(frames, LAMBDA f : f.type = type))

\* position in `consumed` of the first delta that carries tool-call data
FirstToolPos ==
    IF \E k \in 1..Len(consumed) : consumed[k].tool_calls # <<>>
      THEN CHOOSE k \in 1..Len(consumed) :
             /\ consumed[k].tool_calls # <<>>
             /\ \A j \in 1..(k - 1) : consumed[j].tool_calls = <<>>
      ELSE Len(consumed) + 1

\* the plain text received before the first tool-call delta
PreText == ConcatAll([k \in 1..(FirstToolPos - 1) |-> consumed[k].content])
\* all plain text received
AllText == ConcatAll([k \in 1..Len(consumed) |-> consumed[k].content])

RECURSIVE Flatten(_)
Flatten(ss) == IF ss = <<>> THEN <<>> ELSE Head(ss) \o Flatten(Tail(ss))

\* every tool-call fragment received, in arrival order
AllFragments == Flatten([k \in 1..Len(consumed) |-> consumed[k].tool_calls])
\* the fragments that carry index i
FragsAt(i) == SelectSeq(AllFragments, LAMBDA f : f.index = i)

RECURSIVE LastNonEmpty(_)
LastNonEmpty(vals) ==
    IF vals = <<>> THEN ""
    ELSE IF vals[Len(vals)] # "" THEN vals[Len(vals)]
    ELSE LastNonEmpty(SubSeq(vals, 1, Len(vals) - 1))

\* C1: every run of the generator ends with the terminator frame, emitted
\* exactly once and last, also when an exception was raised.
C1_EndsWithDone ==
    pc = "closed" =>
      /\ frames # <<>>
      /\ frames[Len(frames)] = DoneFrame
      /\ Count("done") = 1

\* C2 (as stated): once a tool-call delta has appeared, no round-1 text has
\* been emitted in any frame, whatever the length of the preceding text.
C2_NoFillerEmitted == is_tool_mode => TextFrames = <<>>

\* C2 (amended): preceding text of at most 60 characters is never emitted;
\* of longer preceding text only a prefix is emitted (the part flushed when
\* the buffer exceeded 60 characters), never the text received after it.
C2_ShortFillerSuppressed ==
    is_tool_mode =>
      /\ IsPrefix(EmittedText, PreText)
      /\ Len(PreText) <= FlushThreshold => TextFrames = <<>>

C2_Witness ==
    /\ pc = "closed"
    /\ is_tool_mode
    /\ PreText = Filler30 \o Filler30
    /\ TextFrames = <<>>
    /\ frames[Len(frames)] = DoneFrame

\* C3: a round-1 stream of plain-text deltas only: the emitted text frames
\* concatenate to the concatenation of the deltas, and the end of the stream
\* adds at most one text frame.
C3_TextPreserved ==
    [][ (pc = "round1" /\ pc' = "closed" /\ ~is_tool_mode
           /\ frames'[Len(frames')] = DoneFrame)
        => /\ EmittedText' = AllText
           /\ Count("text")' <= Count("text") + 1 ]_vars

C3_Witness ==
    /\ pc = "closed"
    /\ ~is_tool_mode
    /\ frames = <<TextFrame(Filler35 \o Filler30), TextFrame(Filler30), DoneFrame>>

\* C4: per index, arguments is the concatenation of the fragments' argument
\* substrings in arrival order; id and name are the last non-empty values.
C4_SlotReconstruction ==
    \A i \in 1..Len(tool_calls) :
      LET fs == FragsAt(i - 1) IN
        /\ tool_calls[i].function.arguments
             = ConcatAll([k \in 1..Len(fs) |-> fs[k].function.arguments])
        /\ tool_calls[i].id = LastNonEmpty([k \in 1..Len(fs) |-> fs[k].id])
        /\ tool_calls[i].function.name
             = LastNonEmpty([k \in 1..Len(fs) |-> fs[k].function.name])

C4_Witness ==
    /\ Len(FragsAt(0)) = 3
    /\ tool_calls[1].function.arguments = "{\"r\":1}"
    /\ tool_calls[1].id = "call_c"
    /\ tool_calls[1].function.name = "send_email"

\* the indices named by the fragments of the delta received in this step
TouchedNow == { consumed'[Len(consumed')].tool_calls[k].index :
                  k \in 1..Len(consumed'[Len(consumed')].tool_calls) }

\* slot i, rebuilt from the fragments of its index alone
Alone(i) ==
    IF FragsAt(i - 1) = <<>> THEN Placeholder
    ELSE MergeFragments(<<>>, FragsAt(i - 1))[i]

\* C5: merging a fragment of index i leaves every other slot unchanged, and
\* every slot equals what its own fragments, arriving alone, would build.
C5_SlotsIndependent ==
    /\ [](\A i \in 1..Len(tool_calls) : tool_calls[i] = Alone(i))
    /\ [][ consumed' # consumed =>
             \A j \in 1..Len(tool_calls) :
               (j - 1) \notin TouchedNow => tool_calls'[j] = tool_calls[j] ]_vars

C5_Witness ==
    /\ consumed = <<Delta("", <<FragOpen0>>), Delta("", <<FragWhole1>>),
                    Delta("", <<FragArgsB>>)>>
    /\ tool_calls[1].function.arguments = "{\"r\":1}"
    /\ tool_calls[2].function.name = "get_laptop_status"

\* C6: when the round-2 request is issued its history is the round-1 history,
\* then one assistant message (content null) with the whole tool-call array,
\* then one tool-role message per array entry, in array order, carrying that
\* entry's id, whether the call succeeded or failed.
C6_HistoryBeforeRound2 ==
    Len(requests) >= 2 =>
      LET base == requests[1].messages
          h    == requests[2].messages
          n    == Len(tool_calls)
      IN /\ n >= 1
         /\ Len(h) = Len(base) + 1 + n
         /\ SubSeq(h, 1, Len(base)) = base
         /\ h[Len(base) + 1] = AssistantMessage(tool_calls)
         /\ \A k \in 1..n :
              /\ h[Len(base) + 1 + k].role = "tool"
              /\ h[Len(base) + 1 + k].tool_call_id = tool_calls[k].id

C6_Witness ==
    /\ Len(requests) = 2
    /\ Len(tool_calls) = 2
    /\ Count("error") = 1
    /\ Count("tool_end") = 1
    /\ tool_calls[1].id # tool_calls[2].id

\* the frames of a turn without text: per call a tool-started frame naming
\* it and then one tool-result frame, then round-2 chunks, then the terminator
ToolTurnShape(fs) ==
    LET n == Len(tool_calls) IN
      /\ Len(fs) >= 2 * n + 1
      /\ \A k \in 1..n :
           /\ fs[2 * k - 1].type = "tool_start"
           /\ fs[2 * k - 1].body[1] = tool_calls[k].function.name
           /\ fs[2 * k].type = "tool_end"
      /\ \A k \in (2 * n + 1)..(Len(fs) - 1) : fs[k].type = "chunk"
      /\ fs[Len(fs)] = DoneFrame

NothingFailed == Count("error") = 0

\* C7 (as stated): in a turn with tool calls where nothing fails the frames
\* are the tool frames in array order, the round-2 chunks and the terminator,
\* and no round-1 text frame.
C7_ToolTurnWithoutText ==
    (pc = "closed" /\ tool_calls # <<>> /\ NothingFailed) => ToolTurnShape(frames)

\* C7 (amended): the same order holds for the frames that follow the round-1
\* text frames; text frames come first, are a prefix of the text that preceded
\* the first tool-call delta, and there is none when that text has at most 60
\* characters.
C7_ToolTurnOrder ==
    (pc = "closed" /\ tool_calls # <<>> /\ NothingFailed) =>
      /\ ToolTurnShape(SubSeq(frames, Len(TextFrames) + 1, Len(frames)))
      /\ SubSeq(frames, 1, Len(TextFrames)) = TextFrames
      /\ IsPrefix(EmittedText, PreText)
      /\ Len(PreText) <= FlushThreshold => TextFrames = <<>>

C7_Witness ==
    /\ pc = "closed"
    /\ NothingFailed
    /\ Len(tool_calls) = 2
    /\ Count("chunk") = 1
    /\ Len(frames) = 6

\* arguments texts that are not JSON: empty, cut short, or begun in the middle
MalformedArguments == {"", "{\"r\":", "1}", "{}1}"}

\* C8: a call whose arguments do not parse is not passed to execute_tool; its
\* tool-started frame is followed by one error frame and a tool-role message
\* with its id and an error string is appended to the history.
C8_MalformedArguments ==
    [][ (pc = "tool_run" /\ CurrentCall.function.arguments \in MalformedArguments)
        => /\ executed' = executed
           /\ frames[Len(frames)].type = "tool_start"
           /\ Len(frames') = Len(frames) + 1
           /\ frames'[Len(frames')].type = "error"
           /\ Len(messages') = Len(messages) + 1
           /\ messages'[Len(messages')].role = "tool"
           /\ messages'[Len(messages')].tool_call_id = CurrentCall.id
           /\ IsPrefix("Error: ", messages'[Len(messages')].content) ]_vars

C8_Witness ==
    /\ pc = "round2_request"
    /\ Len(tool_calls) = 1
    /\ tool_calls[1].function.arguments = "{\"r\":"
    /\ executed = <<>>
    /\ frames[Len(frames)].type = "error"
    /\ messages[Len(messages)].tool_call_id = "call_a"

ToolMessages == SelectSeq(messages, LAMBDA m : m.role = "tool")

\* C16: the step that runs a tool call, failing or not, yields exactly one
\* frame (the call's result or its error), moves on to the next call or,
\* after the last one, to the round-2 request, and never closes the
\* sequence; when round 2 is requested every call has been started and has
\* its frame and its tool message.
C16_ToolFailureDoesNotAbort ==
    /\ [][ pc = "tool_run"
           => /\ pc' = AfterCall
              /\ tc_pos' = tc_pos + 1
              /\ Len(frames') = Len(frames) + 1
              /\ SubSeq(frames', 1, Len(frames)) = frames
              /\ frames'[Len(frames')].type \in {"tool_end", "error"}
              /\ Len(messages') = Len(messages) + 1 ]_vars
    /\ [](pc = "round2_request"
            => /\ Count("tool_start") = Len(tool_calls)
               /\ Count("tool_end") + Count("error") = Len(tool_calls)
               /\ Len(ToolMessages) = Len(tool_calls))
    /\ [](pc = "round2" => Len(requests) = 2)

\* the first of two calls failed, the second was started and succeeded,
\* round 2 was requested and the sequence ended with the terminator
C16_Witness ==
    /\ pc = "closed"
    /\ Len(tool_calls) = 2
    /\ Len(requests) = 2
    /\ frames[Len(frames)] = DoneFrame
    /\ \E k \in 1..(Len(frames) - 2) :
         /\ frames[k].type = "error"
         /\ frames[k + 1].type = "tool_start"
         /\ frames[k + 2].type = "tool_end"

\* C17: tool mode, once on, stays on; from the delta that turns it on, no
\* text frame is emitted any more, the text buffer is empty, and the
\* assistant message put into history carries no text.
C17_ToolModeDiscardsText ==
    /\ [][is_tool_mode => is_tool_mode']_vars
    /\ [][is_tool_mode' => TextFrames' = TextFrames]_vars
    /\ [](is_tool_mode => text_buffer = "")
    /\ [](\A k \in 1..Len(messages) :
            messages[k].role = "assistant" => messages[k].content = None)

\* the delta that turned tool mode on carried text, so did a later one, and
\* the run went through the tool round to the terminator
C17_Witness ==
    /\ pc = "closed"
    /\ frames[Len(frames)] = DoneFrame
    /\ is_tool_mode
    /\ FirstToolPos <= Len(consumed)
    /\ consumed[FirstToolPos].content # ""
    /\ \E k \in (FirstToolPos + 1)..Len(consumed) :
         consumed[k].content # "" /\ consumed[k].tool_calls = <<>>

\* what the round-1 history is to be for an input conversation: the
\* instruction appended to a leading system message, or else one system
\* message with the instruction put in front; the rest as it was
WithInstruction(msgs) ==
    IF msgs # <<>> /\ msgs[1].role = "system"
      THEN [msgs EXCEPT ![1].content = @ \o " " \o system_instruction]
      ELSE <<Message("system", system_instruction)>> \o msgs

\* C21: no input conversation makes the preparation of the history fail,
\* and the history of the round-1 request is the input with the instruction
\* in a leading system message.
C21_InstructionLeadsHistory ==
    /\ ~(pc = "closed" /\ requests = <<>> /\ PrepareRaises(messages))
    /\ requests # <<>> =>
         /\ requests[1].messages # <<>>
         /\ requests[1].messages[1].role = "system"
         /\ \E req \in Conversations :
              requests[1].messages = WithInstruction(req)

ToolMessagesOf(msgs) == SelectSeq(msgs, LAMBDA m : m.role = "tool")

\* C22: at most two model requests are issued; a second one only when round
\* 1 left at least one tool call, and every run that reaches the terminator
\* with a tool call has issued it; its history holds one tool message per
\* tool call, in call order; it carries no tools; and from the round-2
\* request on no tool is executed.
C22_AtMostTwoRounds ==
    /\ [](Len(requests) <= 2)
    /\ [](Len(requests) = 2 =>
            /\ tool_calls # <<>>
            /\ requests[2].tools = NoToolsArg
            /\ Len(ToolMessagesOf(requests[2].messages)) = Len(tool_calls)
            /\ \A k \in 1..Len(tool_calls) :
                 ToolMessagesOf(requests[2].messages)[k].tool_call_id
                   = tool_calls[k].id)
    /\ []((pc = "closed" /\ frames # <<>> /\ frames[Len(frames)] = DoneFrame)
            => (Len(requests) = 2 <=> tool_calls # <<>>))
    /\ [][Len(requests) = 2 => executed' = executed]_vars

\* with tools on offer, two calls were made in round 1 and the run ended
\* after a round 2 that was requested without tools
C22_Witness ==
    /\ pc = "closed"
    /\ frames[Len(frames)] = DoneFrame
    /\ Len(tool_calls) = 2
    /\ Len(requests) = 2
    /\ ~requests[1].tools.none
    /\ requests[2].tools.none
    /\ Len(executed) = 2

\* C24: the text buffer never holds more than 60 characters once a delta
\* has been processed; a step of round 1 that emits a frame while the stream
\* goes on emits one text frame of more than 60 characters and leaves the
\* buffer empty.
C24_FlushAboveThreshold ==
    /\ [](Len(text_buffer) <= FlushThreshold)
    /\ [][ (pc = "round1" /\ pc' = "round1" /\ frames' # frames)
           => /\ Len(frames') = Len(frames) + 1
              /\ SubSeq(frames', 1, Len(frames)) = frames
              /\ frames'[Len(frames')].type = "text"
              /\ Len(frames'[Len(frames')].body) > FlushThreshold
              /\ text_buffer' = "" ]_vars

\* 65 characters were flushed in one frame and the next 30 are held back
C24_Witness ==
    /\ pc = "round1"
    /\ Len(frames) = 1
    /\ frames[1] = TextFrame(Filler30 \o Filler35)
    /\ text_buffer = Filler30
    /\ ~is_tool_mode

\* C27: every tool-started frame names a tool, every call passed to
\* execute_tool has a name, and every tool message in history answers a call
\* with an id; no padding placeholder is among the calls started.
C27_OnlyModelCallsRun ==
    /\ \A k \in 1..Len(frames) :
         frames[k].type = "tool_start" => frames[k].body[1] # ""
    /\ \A k \in 1..Len(executed) : executed[k].name # ""
    /\ \A k \in 1..Len(messages) :
         messages[k].role = "tool" => messages[k].tool_call_id # ""
    /\ \A k \in 1..Len(tool_calls) :
         (pc \in {"tool_run", "round2_request", "round2"} /\ k <= tc_pos)
           => tool_calls[k] # Placeholder

(***************************************************************************)
(* The remote agent, client_agent.py.                                      *)
(***************************************************************************)
\* TOOLS_REGISTRY, lines 352-515: tool name -> its "blocking" flag
TOOLS_REGISTRY ==
    [n \in {"read_emails", "search_emails", "get_email_detail", "send_email",
            "reply_email", "forward_email", "read_calendar", "create_event",
            "download_attachment"} |-> [blocking |-> TRUE]]
    @@ [n \in {"get_laptop_status"} |-> [blocking |-> FALSE]]

\* asyncio.sleep(30), line 524
HeartbeatInterval == 30
\* asyncio.sleep(5), line 547
BackoffSeconds == 5

\* Inbound messages, as the server writes them.  json_ok is FALSE for a text
\* json.loads rejects; args_ok is FALSE when params.arguments do not match the
\* handler's parameters.
Inbound(method, result, name, args_ok, json_ok) ==
    [method |-> method, result |-> result, name |-> name,
     args_ok |-> args_ok, json_ok |-> json_ok]

InboundKinds ==
    { Inbound("tools/list", None, None, TRUE, TRUE),
      Inbound("tools/call", None, "read_calendar", TRUE, TRUE),
      Inbound("tools/call", None, "get_laptop_status", TRUE, TRUE),
      Inbound("tools/call", None, "get_laptop_status", FALSE, TRUE),
      Inbound("tools/call", None, "no_such_tool", TRUE, TRUE),
      Inbound("ping", None, None, TRUE, TRUE),
      Inbound(None, "pong", None, TRUE, TRUE),
      Inbound("resources/list", None, None, TRUE, TRUE),
      Inbound(None, None, None, TRUE, FALSE) }

WithId(kind, id) ==
    [id |-> id, method |-> kind.method, result |-> kind.result,
     name |-> kind.name, args_ok |-> kind.args_ok, json_ok |-> kind.json_ok]

NoCommand == WithId(Inbound(None, None, None, TRUE, TRUE), 0)

\* How a tool handler can end: a value, an in-band {"error": ...} object, or a
\* raised exception (a TypeError when the arguments do not match).
Outcomes(cmd) ==
    IF ~cmd.args_ok THEN {"raise"}
    ELSE IF TOOLS_REGISTRY[cmd.name].blocking THEN {"value", "inband_error", "raise"}
    ELSE {"value"}

\* Seconds a handler runs: native Outlook I/O can outlast a heartbeat interval
Durations(cmd) ==
    IF cmd.args_ok /\ TOOLS_REGISTRY[cmd.name].blocking THEN {0, 45} ELSE {0}

\* Mutant of Response: the response dict is built without the command's id.
ResponseUntagged(id, has_result, has_error, code, text) ==
    [kind |-> "response", id |-> 0 - 1, has_result |-> has_result,
     has_error |-> has_error, code |-> code, text |-> text]

\* Responses, lines 557-580.  has_result / has_error tell which members the
\* response dict carries.
Response(id, has_result, has_error, code, text) ==
    [kind |-> "response", id |-> id, has_result |-> has_result,
     has_error |-> has_error, code |-> code, text |-> text]

\* line 525
Ping == [kind |-> "ping", id |-> 0 - 1, has_result |-> FALSE,
         has_error |-> FALSE, code |-> 0, text |-> "ping"]

OnWire(conn, msg, late) == [conn |-> conn, msg |-> msg, late |-> late]

AgentInit ==
    /\ agent_pc = "connecting"
    /\ conn_id = 0
    /\ sock_open = FALSE
    /\ inbox = <<>>
    /\ sent = <<>>
    /\ hb_alive = FALSE
    /\ hb_remaining = 0
    /\ hb_overdue = 0
    /\ current = NoCommand
    /\ run_remaining = 0
    /\ backoff_remaining = 0
    /\ attempts = <<>>
    /\ cmd_seq = 0

Connected == agent_pc \in {"recv", "inline", "await_thread"}

\* websockets.connect succeeds; heartbeat task created (lines 534-536)
Connect ==
    /\ agent_pc = "connecting"
    /\ conn_id < MaxConns
    /\ conn_id' = conn_id + 1
    /\ attempts' = Append(attempts, "connected")
    /\ sock_open' = TRUE
    /\ inbox' = <<>>
    /\ hb_alive' = TRUE
    /\ hb_remaining' = HeartbeatInterval
    /\ hb_overdue' = 0
    /\ agent_pc' = "recv"
    /\ UNCHANGED <<sent, current, run_remaining, backoff_remaining, cmd_seq, orch_vars, server_vars>>

\* Mutant of ConnectFails: the failure is caught and the loop starts over
\* without the sleep.
ConnectFailsNoBackoff ==
    /\ agent_pc = "connecting"
    /\ conn_id < MaxConns
    /\ conn_id' = conn_id + 1
    /\ attempts' = Append(attempts, "failed")
    /\ UNCHANGED <<agent_pc, sock_open, inbox, sent, hb_alive, hb_remaining,
                   hb_overdue, current, run_remaining, backoff_remaining,
                   cmd_seq, orch_vars, server_vars>>

\* websockets.connect raises: except Exception -> asyncio.sleep(5) (lines 545-547)
ConnectFails ==
    /\ agent_pc = "connecting"
    /\ conn_id < MaxConns
    /\ conn_id' = conn_id + 1
    /\ attempts' = Append(attempts, "failed")
    /\ agent_pc' = "backoff"
    /\ backoff_remaining' = BackoffSeconds
    /\ UNCHANGED <<sock_open, inbox, sent, hb_alive, hb_remaining, hb_overdue,
                   current, run_remaining, cmd_seq, orch_vars, server_vars>>

\* asyncio.sleep(5) returns; `while True` starts over (lines 532, 547)
BackoffDone ==
    /\ agent_pc = "backoff"
    /\ backoff_remaining = 0
    /\ attempts' = Append(attempts, "slept")
    /\ agent_pc' = "connecting"
    /\ UNCHANGED <<conn_id, sock_open, inbox, sent, hb_alive, hb_remaining,
                   hb_overdue, current, run_remaining, backoff_remaining, cmd_seq,
                   orch_vars, server_vars>>

\* `finally: heartbeat_task.cancel()` and leaving `async with` (lines 543-544)
LeaveConnection ==
    /\ hb_alive' = FALSE
    /\ hb_overdue' = 0
    /\ sock_open' = FALSE
    /\ inbox' = <<>>
    /\ current' = NoCommand
    /\ run_remaining' = 0

\* except websockets.ConnectionClosed, or the iteration ending: the `while True`
\* loop starts over at once (lines 541-544, 532)
ConnectionLost ==
    /\ LeaveConnection
    /\ agent_pc' = "connecting"
    /\ UNCHANGED <<backoff_remaining, attempts>>

\* any other exception inside `async with`: except Exception (lines 545-547)
ConnectionError ==
    /\ LeaveConnection
    /\ agent_pc' = "backoff"
    /\ backoff_remaining' = BackoffSeconds
    /\ UNCHANGED attempts

\* await ws.send(json.dumps(response)), line 582, then back to `async for`
SendResponse(response) ==
    IF sock_open
      THEN /\ sent' = Append(sent, OnWire(conn_id, response, 0))
           /\ agent_pc' = "recv"
           /\ current' = NoCommand
           /\ run_remaining' = 0
           /\ UNCHANGED <<sock_open, hb_alive, hb_remaining, hb_overdue,
                          backoff_remaining, attempts>>
      ELSE /\ ConnectionLost
           /\ UNCHANGED <<sent, hb_remaining>>

\* Mutant of IsLiveness: only the method is looked at.
IsLivenessPingOnly(data) == data.method = "ping"

\* line 554
IsLiveness(data) == data.method = "ping" \/ data.result = "pong"

\* Mutant of HandleUnknownTool: the lookup raises (TOOLS_REGISTRY[name]) and
\* the exception leaves handle_message.
HandleUnknownToolRaises(data) ==
    /\ ConnectionError
    /\ UNCHANGED <<sent, hb_remaining>>

\* `else` of `if tool:`, lines 579-582
HandleUnknownTool(data) ==
    /\ SendResponse(Response(data.id, FALSE, TRUE, 0 - 32601, "Tool not found"))
    /\ IF sock_open THEN inbox' = Tail(inbox) ELSE TRUE

\* Mutant of RunsInThread: every handler is called inline on the event loop.
RunsInline(name) == FALSE

\* tool["blocking"], line 571: the handler runs in a worker thread
RunsInThread(name) == TOOLS_REGISTRY[name].blocking

\* one iteration of `async for message in websocket` up to the point where
\* handle_message returns or starts a tool handler (lines 538-540, 549-574)
Receive ==
    /\ agent_pc = "recv"
    /\ inbox # <<>>
    /\ Len(sent) < MaxSent
    /\ LET data == Head(inbox) IN
       IF ~data.json_ok
         THEN /\ ConnectionError
              /\ UNCHANGED <<sent, hb_remaining>>
       ELSE IF IsLiveness(data)
         THEN /\ inbox' = Tail(inbox)
              /\ UNCHANGED <<agent_pc, sock_open, sent, hb_alive, hb_remaining,
                             hb_overdue, current, run_remaining, backoff_remaining,
                             attempts>>
       ELSE IF data.method = "tools/list"
         THEN /\ SendResponse(Response(data.id, TRUE, FALSE, 0, "tools"))
              /\ IF sock_open THEN inbox' = Tail(inbox) ELSE TRUE
       ELSE IF data.method = "tools/call" /\ data.name \notin DOMAIN TOOLS_REGISTRY
         THEN HandleUnknownTool(data)
       ELSE IF data.method = "tools/call"
         THEN /\ inbox' = Tail(inbox)
              /\ current' = data
              /\ \E d \in Durations(data) : run_remaining' = d
              /\ agent_pc' = IF RunsInThread(data.name) THEN "await_thread" ELSE "inline"
              /\ UNCHANGED <<sock_open, sent, hb_alive, hb_remaining, hb_overdue,
                             backoff_remaining, attempts>>
       ELSE /\ SendResponse(Response(data.id, FALSE, FALSE, 0, ""))
            /\ IF sock_open THEN inbox' = Tail(inbox) ELSE TRUE
    /\ UNCHANGED <<conn_id, cmd_seq, orch_vars, server_vars>>

\* str(e) of the exception a handler raised, line 577: a TypeError of the
\* call `tool["func"](**args)`, or what the tool itself raised
ExceptionMessage(cmd) ==
    IF cmd.args_ok THEN "(-2147221005, 'Invalid class string', None, None)"
                   ELSE "got an unexpected keyword argument 'x'"

\* json.dumps(result, default=str), line 574: the text of the result's content
\* item, for a value and for an in-band error object
ResultText(outcome) ==
    IF outcome = "inband_error"
      THEN "{\"error\": \"Outlook is not running\"}"
      ELSE "[{\"subject\": \"Standup\"}]"

\* Mutant of HandlerEnds: a returned {"error": ...} object is reported through
\* the error member, like a raised exception.
HandlerEndsInbandAsError ==
    /\ agent_pc \in {"inline", "await_thread"}
    /\ run_remaining = 0
    /\ \E outcome \in Outcomes(current) :
         SendResponse(
           IF outcome = "raise"
             THEN Response(current.id, FALSE, TRUE, 0 - 32000,
                           ExceptionMessage(current))
           ELSE IF outcome = "inband_error"
             THEN Response(current.id, FALSE, TRUE, 0 - 32000,
                           ResultText(outcome))
             ELSE Response(current.id, TRUE, FALSE, 0, ResultText(outcome)))
    /\ IF sock_open THEN inbox' = inbox ELSE TRUE
    /\ UNCHANGED <<conn_id, cmd_seq, orch_vars, server_vars>>

\* Mutant of HandlerEnds: no try/except around the call; what the handler
\* raises leaves handle_message.
HandlerEndsUncaught ==
    /\ agent_pc \in {"inline", "await_thread"}
    /\ run_remaining = 0
    /\ \E outcome \in Outcomes(current) :
         IF outcome = "raise"
           THEN /\ ConnectionError
                /\ UNCHANGED <<sent, hb_remaining>>
           ELSE /\ SendResponse(Response(current.id, TRUE, FALSE, 0,
                                         ResultText(outcome)))
                /\ IF sock_open THEN inbox' = inbox ELSE TRUE
    /\ UNCHANGED <<conn_id, cmd_seq, orch_vars, server_vars>>

\* the tool handler ends; lines 576-582
HandlerEnds ==
    /\ agent_pc \in {"inline", "await_thread"}
    /\ run_remaining = 0
    /\ \E outcome \in Outcomes(current) :
         SendResponse(
           IF outcome = "raise"
             THEN Response(current.id, FALSE, TRUE, 0 - 32000,
                           ExceptionMessage(current))
             ELSE Response(current.id, TRUE, FALSE, 0, ResultText(outcome)))
    /\ IF sock_open THEN inbox' = inbox ELSE TRUE
    /\ UNCHANGED <<conn_id, cmd_seq, orch_vars, server_vars>>

\* `async for` finds the connection closed and nothing left to deliver
ReceiveClosed ==
    /\ agent_pc = "recv"
    /\ inbox = <<>>
    /\ ~sock_open
    /\ ConnectionLost
    /\ UNCHANGED <<conn_id, sent, hb_remaining, cmd_seq, orch_vars, server_vars>>

\* heartbeat wakes from asyncio.sleep(30) and sends the ping (lines 523-526);
\* it can run only when the event loop is not occupied by an inline handler
HeartbeatFires ==
    /\ hb_alive
    /\ hb_remaining = 0
    /\ agent_pc # "inline"
    /\ Len(sent) < MaxSent
    /\ IF sock_open
         THEN /\ sent' = Append(sent, OnWire(conn_id, Ping, hb_overdue))
              /\ hb_remaining' = HeartbeatInterval
              /\ hb_overdue' = 0
              /\ UNCHANGED hb_alive
         ELSE /\ hb_alive' = FALSE
              /\ UNCHANGED <<sent, hb_remaining, hb_overdue>>
    /\ UNCHANGED <<agent_pc, conn_id, sock_open, inbox, current, run_remaining,
                   backoff_remaining, attempts, cmd_seq, orch_vars, server_vars>>

\* The timers that are running, and the seconds until the first of them is due.
HbTimer == IF hb_alive THEN {hb_remaining} ELSE {}
RunTimer == IF agent_pc \in {"inline", "await_thread"} THEN {run_remaining} ELSE {}
BackoffTimer == IF agent_pc = "backoff" THEN {backoff_remaining} ELSE {}
ActiveTimers == HbTimer \cup RunTimer \cup BackoffTimer
NextDue == CHOOSE t \in ActiveTimers : \A u \in ActiveTimers : t <= u

\* `async for` has something to do: a message to hand to handle_message, or
\* the end of the connection to report (line 538)
MessageLoopReady == agent_pc = "recv" /\ (inbox # <<>> \/ ~sock_open)

\* Time passes.  With the event loop free, the message loop when it is ready
\* and every due timer are served before more time passes; while an inline
\* handler occupies the loop, time runs to the handler's end and a heartbeat
\* that falls due meanwhile is kept waiting.
TimePasses ==
    /\ ActiveTimers # {}
    /\ ~MessageLoopReady
    /\ IF agent_pc = "inline"
         THEN /\ run_remaining > 0
              /\ run_remaining' = 0
              /\ IF hb_alive /\ hb_remaining < run_remaining
                   THEN /\ hb_remaining' = 0
                        /\ hb_overdue' = hb_overdue + (run_remaining - hb_remaining)
                   ELSE /\ hb_remaining' = IF hb_alive THEN hb_remaining - run_remaining
                                           ELSE hb_remaining
                        /\ hb_overdue' = hb_overdue
              /\ UNCHANGED backoff_remaining
         ELSE /\ NextDue > 0
              /\ hb_remaining' = IF hb_alive THEN hb_remaining - NextDue ELSE hb_remaining
              /\ run_remaining' = IF agent_pc = "await_thread"
                                    THEN run_remaining - NextDue ELSE run_remaining
              /\ backoff_remaining' = IF agent_pc = "backoff"
                                        THEN backoff_remaining - NextDue
                                        ELSE backoff_remaining
              /\ UNCHANGED hb_overdue
    /\ UNCHANGED <<agent_pc, conn_id, sock_open, inbox, sent, hb_alive, current,
                   attempts, cmd_seq, orch_vars, server_vars>>

\* the server writes a message to the agent's connection
ServerSends(kind) ==
    /\ Connected
    /\ sock_open
    /\ cmd_seq < MaxCmds
    /\ cmd_seq' = cmd_seq + 1
    /\ inbox' = Append(inbox, WithId(kind, cmd_seq + 1))
    /\ UNCHANGED <<agent_pc, conn_id, sock_open, sent, hb_alive, hb_remaining,
                   hb_overdue, current, run_remaining, backoff_remaining, attempts,
                   orch_vars, server_vars>>

\* the server closes the connection, or the network drops it
ServerCloses ==
    /\ Connected
    /\ sock_open
    /\ sock_open' = FALSE
    /\ UNCHANGED <<agent_pc, conn_id, inbox, sent, hb_alive, hb_remaining,
                   hb_overdue, current, run_remaining, backoff_remaining, attempts,
                   cmd_seq, orch_vars, server_vars>>

AgentNext ==
    \/ Connect
    \/ ConnectFails
    \/ BackoffDone
    \/ Receive
    \/ HandlerEnds
    \/ ReceiveClosed
    \/ HeartbeatFires
    \/ TimePasses
    \/ \E kind \in InboundKinds : ServerSends(kind)
    \/ ServerCloses

(***************************************************************************)
(* The server's event loop: chat_completions hands the async generator     *)
(* smart_stream_generator to StreamingResponse (lines 115, 262-264), which *)
(* iterates it on the event loop that also runs websocket_mcp_endpoint.    *)
(* The generator calls the synchronous OpenAI client and iterates its      *)
(* streams with a plain `for` (lines 127, 156-168, 246-252).               *)
(***************************************************************************)
Chats == 1..MaxChats

LoopInit ==
    /\ loop_held_by = {}
    /\ chat_pc = [r \in Chats |-> "new"]
    /\ chat_chunks = [r \in Chats |-> 0]
    /\ ws_arrived = 0
    /\ ws_handled = 0

\* no coroutine is running on the event loop's thread
LoopFree == loop_held_by = {}

\* the generator of chat request r is ready to be started or resumed
ChatRunnable(r) == chat_pc[r] \in {"new", "sent"}

\* handle_remote_connection has a message to take
WsRunnable == ws_arrived > ws_handled

\* the generator is started or resumed after a yield and runs into
\* create(...) / `for chunk in stream`, where the thread waits on the model's
\* socket (lines 156-168, 246-252)
ChatRuns(r) ==
    /\ LoopFree
    /\ ChatRunnable(r)
    /\ chat_pc' = [chat_pc EXCEPT ![r] = "waiting"]
    /\ loop_held_by' = {r}
    /\ UNCHANGED <<chat_chunks, ws_arrived, ws_handled,
                   orch_vars, agent_vars, endpoint_vars>>

\* the next chunk arrives and is processed without a yield (text buffered or
\* tool-call data merged, lines 170-197); `for` asks for the next chunk
ChunkBuffered(r) ==
    /\ chat_pc[r] = "waiting"
    /\ chat_chunks[r] < MaxDeltas
    /\ chat_chunks' = [chat_chunks EXCEPT ![r] = @ + 1]
    /\ UNCHANGED <<loop_held_by, chat_pc, ws_arrived, ws_handled,
                   orch_vars, agent_vars, endpoint_vars>>

\* the next chunk arrives and a frame is yielded (lines 199-201, 253): the
\* generator is suspended and StreamingResponse sends the frame
ChunkYielded(r) ==
    /\ chat_pc[r] = "waiting"
    /\ chat_chunks[r] < MaxDeltas
    /\ chat_chunks' = [chat_chunks EXCEPT ![r] = @ + 1]
    /\ chat_pc' = [chat_pc EXCEPT ![r] = "sent"]
    /\ loop_held_by' = {}
    /\ UNCHANGED <<ws_arrived, ws_handled,
                   orch_vars, agent_vars, endpoint_vars>>

\* the stream ends and the generator yields the terminator (line 255)
StreamEnds(r) ==
    /\ chat_pc[r] = "waiting"
    /\ chat_pc' = [chat_pc EXCEPT ![r] = "done"]
    /\ loop_held_by' = {}
    /\ UNCHANGED <<chat_chunks, ws_arrived, ws_handled,
                   orch_vars, agent_vars, endpoint_vars>>

\* an agent's message reaches the server's socket
AgentMessageArrives ==
    /\ ws_arrived < MaxAgentMsgs
    /\ ws_arrived' = ws_arrived + 1
    /\ UNCHANGED <<loop_held_by, chat_pc, chat_chunks, ws_handled,
                   orch_vars, agent_vars, endpoint_vars>>

\* handle_remote_connection, awaited on line 80, takes the message
WsHandles ==
    /\ LoopFree
    /\ WsRunnable
    /\ ws_handled' = ws_handled + 1
    /\ UNCHANGED <<loop_held_by, chat_pc, chat_chunks, ws_arrived,
                   orch_vars, agent_vars, endpoint_vars>>

LoopNext ==
    \/ \E r \in Chats : ChatRuns(r)
    \/ \E r \in Chats : ChunkBuffered(r)
    \/ \E r \in Chats : ChunkYielded(r)
    \/ \E r \in Chats : StreamEnds(r)
    \/ AgentMessageArrives
    \/ WsHandles

(***************************************************************************)
(* The /ws/mcp endpoint, backend/server.py lines 65-88, and the part of    *)
(* the Aggregator (MCPManager) it drives: the routing table of remote      *)
(* agents, keyed by client_id.                                             *)
(***************************************************************************)
Sockets == 1..MaxSockets

\* websocket.client.host of the agents that connect
Hosts == {"10.0.0.5", "10.0.0.6"}

\* f"laptop-agent-{client_host}", line 73
ClientId(host) == "laptop-agent-" \o host

ClientIds == {ClientId(h) : h \in Hosts}

\* handle_remote_connection(client_id, websocket) enters the connection into
\* the routing table under client_id
Registered(table, client_id, socket) ==
    [id \in DOMAIN table \cup {client_id} |->
       IF id = client_id THEN socket ELSE table[id]]

\* remove_remote_connection(client_id): idempotent deregistration
Removed(table, client_id) ==
    [id \in DOMAIN table \ {client_id} |-> table[id]]

ServerInit ==
    /\ ws_pc = [c \in Sockets |-> "idle"]
    /\ ws_host = [c \in Sockets |-> None]
    /\ remote_connections = [id \in {} |-> 1]
    /\ LoopInit

\* an agent connects: accept, client_id, and handle_remote_connection starts
\* (lines 71-80)
Accept(c, host) ==
    /\ ws_pc[c] = "idle"
    /\ ws_pc' = [ws_pc EXCEPT ![c] = "serving"]
    /\ ws_host' = [ws_host EXCEPT ![c] = host]
    /\ remote_connections' = Registered(remote_connections, ClientId(host), c)
    /\ UNCHANGED <<orch_vars, agent_vars, loop_vars>>

\* `finally`, lines 86-88
Cleanup(c) ==
    /\ ws_pc' = [ws_pc EXCEPT ![c] = "closed"]
    /\ remote_connections' = Removed(remote_connections, ClientId(ws_host[c]))
    /\ UNCHANGED <<ws_host, orch_vars, agent_vars, loop_vars>>

\* the agent's socket closes: except WebSocketDisconnect (lines 82-83), or
\* handle_remote_connection returns, then `finally`
Disconnect(c) ==
    /\ ws_pc[c] = "serving"
    /\ Cleanup(c)

\* handle_remote_connection raises anything else: except Exception
\* (lines 84-85), then `finally`
HandlerError(c) ==
    /\ ws_pc[c] = "serving"
    /\ Cleanup(c)

ServerNext ==
    \/ \E c \in Sockets, host \in Hosts : Accept(c, host)
    \/ \E c \in Sockets : Disconnect(c)
    \/ \E c \in Sockets : HandlerError(c)

(***************************************************************************)
(* Properties of the remote agent.                                         *)
(***************************************************************************)
IsUnknownToolCall(data) ==
    /\ data.json_ok
    /\ ~IsLiveness(data)
    /\ data.method = "tools/call"
    /\ data.name \notin DOMAIN TOOLS_REGISTRY

IsNotFound(w, id) ==
    /\ w.msg.kind = "response"
    /\ w.msg.id = id
    /\ w.msg.has_error
    /\ ~w.msg.has_result
    /\ w.msg.code = 0 - 32601

\* C9: a tools/call for a tool the registry lacks, taken from an open
\* connection, is answered with error -32601 and the command's id; the
\* connection stays open, the agent stays Connected on it with its heartbeat
\* and is back at reading the next command.
C9_UnknownToolKeepsConnection ==
    [][ (agent_pc = "recv" /\ sock_open /\ inbox # <<>>
           /\ IsUnknownToolCall(Head(inbox)) /\ Len(inbox') < Len(inbox))
        => /\ Len(sent') = Len(sent) + 1
           /\ IsNotFound(sent'[Len(sent')], Head(inbox).id)
           /\ sent'[Len(sent')].conn = conn_id
           /\ sock_open'
           /\ conn_id' = conn_id
           /\ agent_pc' = "recv"
           /\ hb_alive' = hb_alive
           /\ inbox' = Tail(inbox) ]_vars

\* a later command was answered on the connection that carried the -32601
C9_Witness ==
    \E i \in 1..Len(sent) : \E j \in (i + 1)..Len(sent) :
      /\ IsNotFound(sent[i], 1)
      /\ sent[j].conn = sent[i].conn
      /\ sent[j].msg.kind = "response"
      /\ sent[j].msg.id = 2
      /\ sent[j].msg.has_result

BlockingHandlerRunning ==
    /\ agent_pc \in {"inline", "await_thread"}
    /\ current.name \in DOMAIN TOOLS_REGISTRY
    /\ TOOLS_REGISTRY[current.name].blocking

\* C10: while a blocking tool handler runs, a ping that has fallen due is
\* never kept waiting, and no ping was sent late.
C10_PingOnSchedule ==
    /\ BlockingHandlerRunning => hb_overdue = 0
    /\ \A k \in 1..Len(sent) : sent[k].late = 0

\* a ping went out 30 s into a 45 s blocking handler
C10_Witness ==
    /\ BlockingHandlerRunning
    /\ sock_open
    /\ run_remaining = 15
    /\ hb_remaining = HeartbeatInterval
    /\ sent # <<>>
    /\ sent[Len(sent)].msg = Ping
    /\ sent[Len(sent)].conn = conn_id

\* The positions of agent_loop; none of them is a way out of `while True`.
LoopPositions == {"connecting", "backoff", "recv", "inline", "await_thread"}

FailedAttempts == {k \in 1..Len(attempts) : attempts[k] = "failed"}

OnlyFailuresSoFar == \A k \in 1..Len(attempts) : attempts[k] # "connected"

\* C11: as long as every connection attempt has failed, the agent has made
\* exactly as many attempts as there were failures, each followed by the
\* 5 s sleep before the next; the sleep is started at 5 s and left only when
\* it has run out; the loop has no way out, and every sleep leads to the
\* next attempt.
C11_RetryForever ==
    /\ [](OnlyFailuresSoFar =>
            /\ conn_id = Cardinality(FailedAttempts)
            /\ \A k \in 1..Len(attempts) :
                 attempts[k] = IF k % 2 = 1 THEN "failed" ELSE "slept")
    /\ [](\A k \in FailedAttempts :
            k < Len(attempts) => attempts[k + 1] = "slept")
    /\ [][ /\ (agent_pc # "backoff" /\ agent_pc' = "backoff")
               => backoff_remaining' = BackoffSeconds
           /\ (agent_pc = "backoff" /\ agent_pc' # "backoff")
               => (backoff_remaining = 0 /\ agent_pc' = "connecting") ]_vars
    /\ [](agent_pc \in LoopPositions)
    /\ (agent_pc = "backoff" ~> agent_pc = "connecting")

\* two attempts failed in a row and the agent is about to make the third
C11_Witness ==
    /\ attempts = <<"failed", "slept", "failed", "slept">>
    /\ agent_pc = "connecting"
    /\ ~sock_open

IsCommand(data) == data.json_ok /\ ~IsLiveness(data)

Handling == {"inline", "await_thread"}

Responses == {k \in 1..Len(sent) : sent[k].msg.kind = "response"}

\* the step appends exactly one message, a response with the given id
AppendsResponseTo(id) ==
    /\ Len(sent') = Len(sent) + 1
    /\ SubSeq(sent', 1, Len(sent)) = sent
    /\ sent'[Len(sent')].msg.kind = "response"
    /\ sent'[Len(sent')].msg.id = id

\* C12: on an open connection, the step that takes a command either answers
\* it with exactly one response carrying the command's id or starts its tool
\* handler, and the step that ends a handler sends exactly one response
\* carrying the id of the command being handled; a response is only ever sent
\* by such a step, and no two responses carry the same id.
C12_OneTaggedResponse ==
    /\ [][ /\ (agent_pc = "recv" /\ sock_open /\ inbox # <<>>
                /\ IsCommand(Head(inbox)) /\ Len(inbox') < Len(inbox))
               => \/ agent_pc' = "recv" /\ AppendsResponseTo(Head(inbox).id)
                  \/ /\ agent_pc' \in Handling
                     /\ current' = Head(inbox)
                     /\ sent' = sent
           /\ (agent_pc \in Handling /\ agent_pc' \notin Handling /\ sock_open)
               => agent_pc' = "recv" /\ AppendsResponseTo(current.id)
           /\ (Len(sent') > Len(sent)
                /\ sent'[Len(sent')].msg.kind = "response")
               => IF agent_pc = "recv"
                    THEN /\ IsCommand(Head(inbox))
                         /\ AppendsResponseTo(Head(inbox).id)
                    ELSE /\ agent_pc \in Handling
                         /\ AppendsResponseTo(current.id) ]_vars
    /\ [](\A i, j \in Responses : i # j => sent[i].msg.id # sent[j].msg.id)

\* two commands were answered, the first by a tool handler's result, the
\* second with an error
C12_Witness ==
    \E i, j \in Responses :
      /\ i < j
      /\ sent[i].msg.id = 1
      /\ sent[i].msg.has_result
      /\ sent[i].msg.text = ResultText("value")
      /\ sent[j].msg.id = 2
      /\ sent[j].msg.has_error

\* C13: no two connection attempts follow each other without the 5 s sleep
\* between them, whatever ended the earlier one (a refused connection, an
\* I/O error, or the server closing the connection).
C13_BackoffBeforeEveryAttempt ==
    \A k \in 1..(Len(attempts) - 1) :
      attempts[k] # "slept" => attempts[k + 1] = "slept"

\* C14: while a blocking tool handler is running in its worker thread, a
\* command that has arrived on the connection is not kept waiting: the
\* handler's time does not advance while the command sits undispatched.
C14_SecondCommandNotKeptWaiting ==
    [][ (BlockingHandlerRunning /\ agent_pc = "await_thread" /\ sock_open
           /\ inbox # <<>> /\ IsCommand(Head(inbox)))
        => run_remaining' = run_remaining ]_vars

IsHandlerError(w, id, text) ==
    /\ w.msg.kind = "response"
    /\ w.msg.id = id
    /\ w.msg.has_error
    /\ ~w.msg.has_result
    /\ w.msg.code = 0 - 32000
    /\ w.msg.text = text

\* C15: on an open connection the end of a tool handler, blocking or not,
\* always sends one response with the command's id and leaves the agent
\* Connected on the same connection, reading the next command, with its
\* heartbeat; if the response is an error it is -32000 with the exception's
\* message, and a call whose arguments do not fit the handler gets that error.
C15_HandlerFailureAnswered ==
    [][ (agent_pc \in Handling /\ agent_pc' \notin Handling /\ sock_open)
        => /\ agent_pc' = "recv"
           /\ sock_open'
           /\ conn_id' = conn_id
           /\ hb_alive' = hb_alive
           /\ inbox' = inbox
           /\ AppendsResponseTo(current.id)
           /\ sent'[Len(sent')].conn = conn_id
           /\ sent'[Len(sent')].msg.has_error
                => IsHandlerError(sent'[Len(sent')], current.id,
                                  ExceptionMessage(current))
           /\ ~current.args_ok => sent'[Len(sent')].msg.has_error ]_vars

\* a blocking handler raised and was answered with -32000; the next command,
\* a call with unfit arguments, was answered with -32000 on the same connection
C15_Witness ==
    \E i, j \in Responses :
      /\ i < j
      /\ IsHandlerError(sent[i], 1, "(-2147221005, 'Invalid class string', None, None)")
      /\ IsHandlerError(sent[j], 2, "got an unexpected keyword argument 'x'")
      /\ sent[i].conn = sent[j].conn

\* C18: the step that takes a decoded envelope with method "ping" or result
\* "pong" removes it from the connection and changes nothing else: no
\* handler is started, nothing is sent, and connection, heartbeat, timers
\* and attempt log are as before.
C18_LivenessEnvelopeIgnored ==
    [][ (agent_pc = "recv" /\ inbox # <<>> /\ Head(inbox).json_ok
           /\ (Head(inbox).method = "ping" \/ Head(inbox).result = "pong")
           /\ Len(inbox') < Len(inbox))
        => /\ inbox' = Tail(inbox)
           /\ UNCHANGED <<agent_pc, conn_id, sock_open, sent, hb_alive,
                          hb_remaining, hb_overdue, current, run_remaining,
                          backoff_remaining, attempts, cmd_seq>> ]_vars

\* two envelopes arrived on the first connection and were taken; nothing was
\* sent and the agent reads on
C18_Witness ==
    /\ agent_pc = "recv"
    /\ conn_id = 1
    /\ sock_open
    /\ cmd_seq = 2
    /\ inbox = <<>>
    /\ sent = <<>>
    /\ current = NoCommand

\* the step is one of time passing: a running timer has moved
TimeAdvances ==
    /\ agent_pc' = agent_pc
    /\ \/ hb_remaining' < hb_remaining
       \/ hb_overdue' > hb_overdue
       \/ run_remaining' < run_remaining
       \/ backoff_remaining' < backoff_remaining

\* C19: a heartbeat task is live only while the agent is Connected; every
\* ping was sent on the connection that was then the agent's current one and
\* open; and once that connection has dropped the heartbeat task does not
\* live on: no time passes with the task live on a dropped connection.
C19_HeartbeatOnlyOnOpenConnection ==
    /\ [](hb_alive => Connected)
    /\ [][ (Len(sent') > Len(sent) /\ sent'[Len(sent')].msg = Ping)
           => /\ hb_alive /\ sock_open /\ Connected
              /\ sent'[Len(sent')].conn = conn_id
              /\ conn_id' = conn_id ]_vars
    /\ [][ (hb_alive /\ ~sock_open) => ~TimeAdvances ]_vars

ExceptionMessages ==
    {ExceptionMessage(WithId(kind, 0)) : kind \in InboundKinds}

\* C25: a response whose text is a handler's in-band error object carries
\* it as a result and has no error member; the error member only appears
\* as -32000 with an exception's message or as -32601 "Tool not found".
C25_InbandErrorIsResult ==
    \A k \in Responses :
      /\ sent[k].msg.text = ResultText("inband_error")
           => (sent[k].msg.has_result /\ ~sent[k].msg.has_error)
      /\ sent[k].msg.has_error =>
           /\ ~sent[k].msg.has_result
           /\ \/ /\ sent[k].msg.code = 0 - 32000
                 /\ sent[k].msg.text \in ExceptionMessages
              \/ /\ sent[k].msg.code = 0 - 32601
                 /\ sent[k].msg.text = "Tool not found"

\* a blocking handler returned an in-band error object and it went out as a
\* result; the next command was answered on the same connection
C25_Witness ==
    \E i, j \in Responses :
      /\ i < j
      /\ sent[i].msg.id = 1
      /\ sent[i].msg.has_result
      /\ ~sent[i].msg.has_error
      /\ sent[i].msg.text = ResultText("inband_error")
      /\ sent[j].conn = sent[i].conn

\* C26: every response the agent has sent carries exactly one of the
\* members result and error.
C26_ResultXorError ==
    \A k \in Responses : sent[k].msg.has_result # sent[k].msg.has_error

(***************************************************************************)
(* Properties of the /ws/mcp endpoint.                                     *)
(***************************************************************************)
LiveSocket(c) == ws_pc[c] = "serving"

\* C20: the routing table has an entry for a client_id exactly when a live
\* socket of that client_id exists, and every entry refers to a live socket.
C20_TableMatchesLiveSockets ==
    /\ \A id \in ClientIds :
         id \in DOMAIN remote_connections
           <=> \E c \in Sockets : LiveSocket(c) /\ ClientId(ws_host[c]) = id
    /\ \A id \in DOMAIN remote_connections :
         LiveSocket(remote_connections[id])

\* C23: while a chat request is waiting for the next chunk of its model
\* stream, every other chat request that is ready to run and the connection
\* handler, when it has a message to take, can run: the event loop is free.
C23_OthersProgressWhileWaiting ==
    \A r \in Chats :
      (/\ chat_pc[r] = "waiting"
       /\ \/ WsRunnable
          \/ \E q \in Chats \ {r} : ChatRunnable(q))
      => LoopFree

(***************************************************************************)
(* Specifications.                                                         *)
(***************************************************************************)
OrchInit ==
    /\ \E req \in Conversations : OrchInitFor(req)
    /\ AgentInit
    /\ ServerInit
AgentOnlyInit == OrchInitFor(<<>>) /\ AgentInit /\ ServerInit

OrchSpec == OrchInit /\ [][OrchNext]_vars
AgentSpec == AgentOnlyInit /\ [][AgentNext]_vars

\* The connection loop on its own: the server accepts or refuses connections,
\* closes them, and sends nothing but bytes that are no JSON, which end the
\* connection through `except Exception`.
ReconnectNext ==
    \/ Connect
    \/ ConnectFails
    \/ BackoffDone
    \/ Receive
    \/ ReceiveClosed
    \/ HeartbeatFires
    \/ TimePasses
    \/ \E kind \in {k \in InboundKinds : ~k.json_ok} : ServerSends(kind)
    \/ ServerCloses

\* asyncio.sleep(5) returns after five seconds and the loop body is resumed
\* (lines 532, 547): time passes, and a sleep that has run out ends.
ReconnectSpec ==
    /\ AgentOnlyInit
    /\ [][ReconnectNext]_vars
    /\ WF_vars(TimePasses)
    /\ WF_vars(BackoffDone)

\* /ws/mcp with agents connecting and disconnecting
ServerSpec == AgentOnlyInit /\ [][ServerNext]_vars

\* chat requests and a connection handler on the server's event loop
LoopSpec == AgentOnlyInit /\ [][LoopNext]_vars

Init == OrchInit
Next == OrchNext \/ AgentNext \/ ServerNext \/ LoopNext
Spec == Init /\ [][Next]_vars

=============================================================================
